---------------------------- MODULE Spec2Model ----------------------------
(***************************************************************************)
(* A model of pypeit/scienceimage.py: the ScienceImage object, its frame   *)
(* stacking (read_stack, proc), its composite bit mask (_build_mask) and   *)
(* the slit-by-slit stages find_objects, global_skysub and                 *)
(* local_skysub_extract.                                                   *)
(*                                                                         *)
(* Images are functions over the pixel set Pix.  Pixel values are exact    *)
(* rationals <<numerator, denominator>> (denominator > 0, lowest terms),   *)
(* so that the weighted means of proc are computed, not assumed.  Python's *)
(* None is the empty tuple.  The external numerical services (frame        *)
(* processing, lacosmic, objfind, the sky fitters, astropy's SigmaClip)    *)
(* are nondeterministic choices over small sets of results.                *)
(***************************************************************************)
EXTENDS Integers, Sequences, FiniteSets, TLC

VARIABLES
    frames,                         \* what file_list + bg_file_list hold, and lacosmic's answer on each
    nsci, nbg,                      \* __init__: len(file_list), len(bg_file_list)
    weights_sum,                    \* proc's weights_sum, when it stacks
    bpm, sciimg, sciivar, rn2img,   \* set by proc
    crmask, mask,                   \* set by proc, replaced by global_skysub
    tslits_dict, tilts, waveimg,    \* calibrations handed to the stages
    maskslits, slitmask,            \* the slit selection and the slit map
    global_sky, skymask, objmask,   \* find_objects / global_skysub products
    sobjs_obj, nobj, sobjs,         \* object lists
    outmask, extractmask, objmodel, skymodel, ivarmodel, \* local_skysub_extract
    steps,                          \* self.steps
    unset,                          \* attribute names __init__ never assigns
    op, err,                        \* the last call (name, maskslits argument) and how it ended
    gdslits, svc, crcalls, nread,   \* the last call's good slits and its service calls
    marked,                         \* slits global_skysub excluded in the array maskslits is
    calls,                          \* number of method calls made on the object
    ret,                            \* the last direct call of a helper: its name, arguments and value
    inmasks                         \* the inmask of each service call of the last call, in order

vars == <<nsci, nbg, bpm, sciimg, sciivar, rn2img, crmask, mask, tslits_dict,
          tilts, waveimg, maskslits, slitmask, global_sky, skymask, objmask,
          sobjs_obj, nobj, sobjs, outmask, extractmask, objmodel, skymodel,
          ivarmodel, steps, unset, op, err, gdslits, svc, crcalls, nread, marked, calls, frames, weights_sum, ret, inmasks>>

---------------------------------------------------------------------------
(* Bounds of the model *)

NPix == 4
NSlits == 3
MaxSci == 3
MaxBg == 2
MaxCalls == 4

Pix == 1..NPix

(* The detector limits read by _build_mask (scaled down). *)
saturation == 5
mincounts == -1

None == <<>>

---------------------------------------------------------------------------
(* Exact arithmetic for numpy's float arrays *)

Abs(x) == IF x < 0 THEN -x ELSE x

RECURSIVE GCD(_, _)
GCD(a, b) == IF b = 0 THEN a ELSE GCD(b, a % b)

(* A denominator of 0 is numpy's inf (<<1, 0>>, <<-1, 0>>) or nan (<<0, 0>>). *)
Q(n, d) ==
    LET s == IF d < 0 THEN -1 ELSE 1
        g == GCD(Abs(n), Abs(d))
    IN  IF d = 0
        THEN <<IF n > 0 THEN 1 ELSE IF n < 0 THEN -1 ELSE 0, 0>>
        ELSE <<(s * n) \div g, (s * d) \div g>>

isfinite(x) == x[2] # 0
isnan(x) == x = <<0, 0>>

QInt(n) == <<n, 1>>
QAdd(x, y) == Q(x[1] * y[2] + y[1] * x[2], x[2] * y[2])
QMul(x, y) == Q(x[1] * y[1], x[2] * y[2])
QDiv(x, y) == Q(x[1] * y[2], x[2] * y[1])
QLe(x, y) == ~isnan(x) /\ ~isnan(y) /\ x[1] * y[2] <= y[1] * x[2]
QGt(x, y) == ~isnan(x) /\ ~isnan(y) /\ x[1] * y[2] > y[1] * x[2]
QZero == QInt(0)
QBool(b) == IF b THEN QInt(1) ELSE QZero

(* The function f over 1..n as a tuple, each entry computed once. *)
RECURSIVE Tab(_, _)
Tab(f, n) == IF n = 0 THEN <<>> ELSE Append(Tab(f, n - 1), f[n])

RECURSIVE QSum(_, _)
QSum(f, n) == IF n = 0 THEN QZero ELSE QAdd(QSum(f, n - 1), f[n])

(* utils.calc_ivar: the reciprocal where the argument is positive, else 0. *)
calc_ivar(x) == IF QGt(x, QZero) THEN QDiv(QInt(1), x) ELSE QZero

---------------------------------------------------------------------------
(* ScienceImageBitMask: one bit per key, in declaration order *)

Flags == <<"BPM", "CR", "SATURATION", "MINCOUNTS", "OFFSLITS", "IS_NAN",
           "IVAR0", "IVAR_NAN", "EXTRACT">>

bit_paired(name) == (CHOOSE i \in 0..(Len(Flags) - 1) : Flags[i + 1] = name) \div 2

bit(name) == CHOOSE i \in 0..(Len(Flags) - 1) : Flags[i + 1] = name

RECURSIVE Pow2(_)
Pow2(n) == IF n = 0 THEN 1 ELSE 2 * Pow2(n - 1)

flagged(m, name) == (m \div Pow2(bit(name))) % 2 = 1

turn_on(m, name) == IF flagged(m, name) THEN m ELSE m + Pow2(bit(name))

---------------------------------------------------------------------------
(* ScienceImage._build_mask.  The mincounts argument is the Python value   *)
(* the caller passes, as an integer (True is 1, False is 0, ~True is -2);  *)
(* `if mincounts:` tests its truthiness.                                   *)

Truthy_nonnegative(x) == x >= 0

Truthy(x) == x # 0

mask_px_stale_cr(bpm_p, sci, ivar, cr, mincounts_, has_slitmask, offslit) ==
    LET m0 == 0
        m1 == IF bpm_p THEN turn_on(m0, "BPM") ELSE m0
        m2 == m1
        m3 == IF QLe(QInt(saturation), sci) THEN turn_on(m2, "SATURATION") ELSE m2
        m4 == IF Truthy(mincounts_) /\ QLe(sci, QInt(mincounts))
              THEN turn_on(m3, "MINCOUNTS") ELSE m3
        m5 == IF has_slitmask /\ offslit THEN turn_on(m4, "OFFSLITS") ELSE m4
        m6 == IF ~isfinite(sci) THEN turn_on(m5, "IS_NAN") ELSE m5
        m7 == IF ~QGt(ivar, QZero) THEN turn_on(m6, "IVAR0") ELSE m6
        m8 == IF ~isfinite(ivar) THEN turn_on(m7, "IVAR_NAN") ELSE m7
    IN  m8

(* One pixel of _build_mask: offslit is (self.slitmask == -1) there. *)
mask_px(bpm_p, sci, ivar, cr, mincounts_, has_slitmask, offslit) ==
    LET m0 == 0
        m1 == IF bpm_p THEN turn_on(m0, "BPM") ELSE m0
        m2 == IF cr THEN turn_on(m1, "CR") ELSE m1
        m3 == IF QLe(QInt(saturation), sci) THEN turn_on(m2, "SATURATION") ELSE m2
        m4 == IF Truthy(mincounts_) /\ QLe(sci, QInt(mincounts))
              THEN turn_on(m3, "MINCOUNTS") ELSE m3
        m5 == IF has_slitmask /\ offslit THEN turn_on(m4, "OFFSLITS") ELSE m4
        m6 == IF ~isfinite(sci) THEN turn_on(m5, "IS_NAN") ELSE m5
        m7 == IF ~QGt(ivar, QZero) THEN turn_on(m6, "IVAR0") ELSE m6
        m8 == IF ~isfinite(ivar) THEN turn_on(m7, "IVAR_NAN") ELSE m7
    IN  m8

(* _build_mask over the image; bpm_ and self_slitmask are self.bpm and     *)
(* self.slitmask, which lines 745 and 766 read.                            *)
build_mask(bpm_, self_slitmask, sciimg_, sciivar_, crmask_, mincounts_, slitmask_) ==
    [p \in Pix |-> mask_px(bpm_[p], sciimg_[p], sciivar_[p], crmask_[p], mincounts_,
                           slitmask_ # None,
                           IF slitmask_ # None THEN self_slitmask[p] = -1 ELSE FALSE)]

(* Python's bool as an int, and Python's ~ on it: ~True = -2, ~False = -1. *)
PyTrue == 1
PyInvert(b) == IF b THEN -2 ELSE -1

ir_redux == nbg > 0

---------------------------------------------------------------------------
(* What the frame-processing service returns for one raw file: the         *)
(* corrected image, its raw variance, its read-noise-squared image, and    *)
(* the cosmic-ray mask lacosmic finds on it when asked.  The frames the    *)
(* model offers differ from a flat exposure (value 1, variance 1, no       *)
(* cosmic ray) at one pixel, hot, where each frame has its own kind.       *)

Vals == {1, 3, saturation}
RawVars == {0, 1}

(* A pixel that a frame's own mask excludes does not enter the stack: one  *)
(* value stands for the kinds with no variance or with a cosmic ray.       *)
FrameKinds(cosmics) ==
    {k \in [img : Vals, var : RawVars, cr : IF cosmics THEN BOOLEAN ELSE {FALSE}] :
        (k.var = 0 \/ k.cr) => k.img = 1}

Frame(hot, k) ==
    [sciimg |-> [p \in Pix |-> QInt(IF p = hot THEN k.img ELSE 1)],
     rawvar |-> [p \in Pix |-> QInt(IF p = hot THEN k.var ELSE 1)],
     rn2    |-> [p \in Pix |-> QInt(1)],
     cr     |-> [p \in Pix |-> p = hot /\ k.cr]]

KindKey(k) == 100 * k.img + 2 * k.var + (IF k.cr THEN 1 ELSE 0)

(* Exposures of one list in a fixed order: the stack is a sum, and the     *)
(* order of the files of a list does not enter it.                         *)
Exposures(kinds, n) ==
    {s \in [1..n -> kinds] : \A i \in 1..(n - 1) : KindKey(s[i]) <= KindKey(s[i + 1])}

Hot(hot, b) == [p \in Pix |-> p = hot /\ b]

---------------------------------------------------------------------------
(* ScienceImage.read_stack, at pixel p of file i: the entries of the five  *)
(* stacks.  bpm_ is self.bpm, which proc has just set.                     *)

read_stack(files, bpm_, cosmics, i, p) ==
    LET img == files[i].sciimg[p]
        ivar == calc_ivar(files[i].rawvar[p])
        cr == cosmics /\ files[i].cr[p]
    IN  [sciimg  |-> img,
         sciivar |-> ivar,
         rn2img  |-> files[i].rn2[p],
         crmask  |-> cr,
         mask    |-> mask_px(bpm_[p], img, ivar, cr, PyTrue, FALSE, FALSE)]

(* proc, lines 613-624: the weights of the stack. *)
weights(i) ==
    IF ir_redux
    THEN IF i <= nsci THEN Q(1, nsci) ELSE Q(-1, nbg)
    ELSE Q(1, nsci)

(* The divisor without the guard of the zero weight sum. *)
divisor_unguarded(wsum) == wsum

(* The divisor taken as the sum of the weights of all the science frames. *)
divisor_of_all(wsum) == QInt(1)

(* proc, lines 664-667: the divisor weights_sum + (weights_sum == 0.0). *)
divisor(wsum) == QAdd(wsum, QBool(wsum = QZero))

(* A cosmic ray of the stack taken as one of any file. *)
all_cr_any(crs, nfiles) == Cardinality({i \in 1..nfiles : crs[i]}) >= 1

(* proc, line 663: a cosmic ray of the stack is one of every file. *)
all_cr(crs, nfiles) == Cardinality({i \in 1..nfiles : crs[i]}) = nfiles

(* proc, line 672: the mincounts argument handed to _build_mask. *)
stack_mincounts == PyInvert(ir_redux)

(* The stack with the variances weighted by the weights, not their squares. *)
stack_unsquared(st, good, nfiles, bpm_p) ==
    LET ws == Tab([i \in 1..nfiles |-> QMul(weights(i), QBool(good[i]))], nfiles)
        ws2 == Tab([i \in 1..nfiles |-> QMul(ws[i], ws[i])], nfiles)
        wsum == QSum(ws, nfiles)
        d == divisor(wsum)
        d2 == QMul(d, d)
        cr == all_cr([i \in 1..nfiles |-> st[i].crmask], nfiles)
        img == QDiv(QSum([i \in 1..nfiles |-> QMul(st[i].sciimg, ws[i])], nfiles), d)
        varfinal ==
            QDiv(QSum([i \in 1..nfiles |-> QMul(calc_ivar(st[i].sciivar), ws[i])], nfiles), d2)
        ivar == calc_ivar(varfinal)
        rn2 == QDiv(QSum([i \in 1..nfiles |-> QMul(st[i].rn2img, ws2[i])], nfiles), d2)
    IN  [crmask  |-> cr,
         sciimg  |-> img,
         sciivar |-> ivar,
         rn2img  |-> rn2,
         wsum    |-> wsum,
         mask    |-> mask_px(bpm_p, img, ivar, cr, stack_mincounts, FALSE, FALSE)]

(* proc, lines 659-672, at one pixel: st[i] is read_stack's entry of file  *)
(* i there and good[i] is outmask_stack there.                             *)
stack(st, good, nfiles, bpm_p) ==
    LET ws == Tab([i \in 1..nfiles |-> QMul(weights(i), QBool(good[i]))], nfiles)
        ws2 == Tab([i \in 1..nfiles |-> QMul(ws[i], ws[i])], nfiles)
        wsum == QSum(ws, nfiles)
        d == divisor(wsum)
        d2 == QMul(d, d)
        cr == all_cr([i \in 1..nfiles |-> st[i].crmask], nfiles)
        img == QDiv(QSum([i \in 1..nfiles |-> QMul(st[i].sciimg, ws[i])], nfiles), d)
        varfinal ==
            QDiv(QSum([i \in 1..nfiles |-> QMul(calc_ivar(st[i].sciivar), ws2[i])], nfiles), d2)
        ivar == calc_ivar(varfinal)
        rn2 == QDiv(QSum([i \in 1..nfiles |-> QMul(st[i].rn2img, ws2[i])], nfiles), d2)
    IN  [crmask  |-> cr,
         sciimg  |-> img,
         sciivar |-> ivar,
         rn2img  |-> rn2,
         wsum    |-> wsum,
         mask    |-> mask_px(bpm_p, img, ivar, cr, stack_mincounts, FALSE, FALSE)]

(* proc, lines 674-678: a single science frame passes through. *)
single(st) == st[1]

Ok == [kind |-> "none", msg |-> ""]
Raise(kind, msg) == [kind |-> kind, msg |-> msg]

stageVars == <<tslits_dict, tilts, waveimg, maskslits, slitmask, global_sky,
               skymask, objmask, sobjs_obj, nobj, sobjs, outmask, extractmask,
               objmodel, skymodel, ivarmodel, steps, marked>>

imageVars == <<bpm, sciimg, sciivar, rn2img>>

localVars == <<sobjs, outmask, extractmask, objmodel, skymodel, ivarmodel>>

(* A call: the method, whether it was handed a new maskslits array ("new") *)
(* or none or the one the object holds ("kept"), and its flag (proc:       *)
(* sigma_clip, find_objects: skysub, global_skysub: update_crmask).        *)
Call(name, ms, flag) ==
    [name |-> name, ms |-> IF ms = "new" THEN "new" ELSE "kept", flag |-> flag]

(* The refusal made only when the clip would be applied. *)
clip_refused_when_applied(sigma_clip) == ir_redux /\ sigma_clip /\ nsci > 2

(* proc, line 614: sigma clipping is refused in difference imaging. *)
clip_refused(sigma_clip) == ir_redux /\ sigma_clip

(* When sigma clipping is asked for with two science frames, neither       *)
(* branch of lines 645-657 assigns outmask_stack, which line 660 reads.    *)
outmask_unbound(sigma_clip) == nsci > 1 /\ sigma_clip /\ nsci <= 2

(* ScienceImage.proc.  files: the frames of file_list then bg_file_list;   *)
(* clip: the file astropy's SigmaClip rejects at pixel hot (0: none);      *)
(* crfinal: lacosmic's answer on the differenced image.                    *)
proc(files, bpm_, sigma_clip, hot, clip, crfinal) ==
    LET nfiles == Len(files)
        cosmics == ~ir_redux
        px(p) ==
            LET st == Tab([i \in 1..nfiles |-> read_stack(files, bpm_, cosmics, i, p)],
                          nfiles)
                good == Tab([i \in 1..nfiles |->
                               st[i].mask = 0 /\ ~(sigma_clip /\ p = hot /\ i = clip)],
                            nfiles)
            IN  IF nsci > 1 THEN stack(st, good, nfiles, bpm_[p]) ELSE single(st)
        framecalls == IF cosmics THEN [i \in 1..nfiles |-> "frame"] ELSE <<>>
    IN  /\ op' = Call("proc", "None", sigma_clip)
        /\ calls' = calls + 1
        /\ UNCHANGED ret
        /\ bpm' = bpm_
        /\ svc' = <<>>
        /\ inmasks' = <<>>
        /\ gdslits' = {}
        /\ UNCHANGED <<nsci, nbg, frames>>
        /\ UNCHANGED stageVars
        /\ IF clip_refused(sigma_clip)
           THEN /\ err' = Raise("PypeItError", "cannot sigma clip with difference imaging")
                /\ nread' = 0
                /\ crcalls' = <<>>
                /\ UNCHANGED <<sciimg, sciivar, rn2img, crmask, mask, unset, weights_sum>>
           ELSE IF outmask_unbound(sigma_clip)
           THEN /\ err' = Raise("UnboundLocalError", "outmask_stack")
                /\ nread' = nfiles
                /\ crcalls' = framecalls
                /\ UNCHANGED <<sciimg, sciivar, rn2img, crmask, mask, unset, weights_sum>>
           ELSE \E r \in {Tab([p \in Pix |-> px(p)], NPix)} :
                /\ err' = Ok
                /\ nread' = nfiles
                /\ sciimg' = [p \in Pix |-> r[p].sciimg]
                /\ sciivar' = [p \in Pix |-> r[p].sciivar]
                /\ rn2img' = [p \in Pix |-> r[p].rn2img]
                /\ unset' = unset \ {"rn2img"}
                /\ mask' = [p \in Pix |-> r[p].mask]
                /\ weights_sum' = IF nsci > 1 THEN [p \in Pix |-> r[p].wsum] ELSE None
                /\ crmask' = IF ir_redux THEN crfinal ELSE [p \in Pix |-> r[p].crmask]
                /\ crcalls' = IF ir_redux THEN framecalls \o <<"stack">> ELSE framecalls

---------------------------------------------------------------------------------------------------------------------------------------
(* ScienceImage.__init__ *)

Fresh ==
    /\ bpm = None /\ sciimg = None /\ sciivar = None /\ rn2img = None
    /\ crmask = None /\ mask = None
    /\ tslits_dict = None /\ tilts = None /\ waveimg = None
    /\ maskslits = None /\ slitmask = None
    /\ global_sky = None /\ skymask = None /\ objmask = None
    /\ sobjs_obj = None /\ nobj = None /\ sobjs = None
    /\ outmask = None /\ extractmask = None
    /\ objmodel = None /\ skymodel = None /\ ivarmodel = None
    /\ steps = <<>>
    /\ unset = {"rn2img", "waveimg", "objmodel", "skymodel", "nobj"}
    /\ weights_sum = None
    /\ op = Call("__init__", "None", FALSE) /\ err = Ok
    /\ gdslits = {} /\ svc = <<>> /\ crcalls = <<>> /\ nread = 0
    /\ inmasks = <<>>
    /\ marked = {}
    /\ calls = 0

---------------------------------------------------------------------------
(* The slits.  A tslits_dict holds the edge traces of nslits slits; the    *)
(* spectrograph's slitmask() turns it into the slit map: the index of the  *)
(* slit a pixel belongs to, or -1.                                         *)

Slits == 0..(NSlits - 1)

(* A tslits_dict: lcen and rcen give the left and right edge of each slit  *)
(* (one spectral row); a slit of bad has its right edge on its left edge.  *)
Edges(k, bad) ==
    [nslits |-> NSlits, shift |-> k,
     lcen |-> [s \in Slits |-> s + k],
     rcen |-> [s \in Slits |-> IF s \in bad THEN s + k ELSE s + k + 1]]

TslitsDicts == {Edges(0, {}), Edges(1, {}), Edges(0, {1})}

spectrograph_slitmask(t) ==
    [p \in Pix |->
        LET s == IF p - 1 - t.shift < 0 THEN 0 ELSE p - 1 - t.shift
        IN  IF s < t.nslits THEN s ELSE -1]

Asc_down(S) ==
    [i \in 1..Cardinality(S) |-> CHOOSE x \in S : Cardinality({y \in S : y > x}) = i - 1]

RECURSIVE Asc(_)
Asc(S) == IF S = {} THEN <<>>
          ELSE LET m == CHOOSE x \in S : \A y \in S : x <= y
               IN  <<m>> \o Asc(S \ {m})

Range(q) == {q[i] : i \in DOMAIN q}

RECURSIVE SumOver(_, _)
SumOver(f, S) == IF S = {} THEN 0
                 ELSE LET x == CHOOSE y \in S : TRUE
                      IN  f[x] + SumOver(f, S \ {x})

thismask_on_slits(sm, slit) == {p \in Pix : sm[p] # -1}

(* thismask = (self.slitmask == slit), as a set of pixels *)
thismask(sm, slit) == {p \in Pix : sm[p] = slit}

(* The maskslits arguments a caller can pass: none, the array the object   *)
(* already holds, or a new array.                                          *)
NewMaskslits == {[s \in Slits |-> s = NSlits - 1]}

MaskslitsArgs ==
    {<<"None", None>>}
    \cup (IF maskslits # None THEN {<<"same", maskslits>>} ELSE {})
    \cup {<<"new", a>> : a \in NewMaskslits}

(* _get_goodslits forgetting the array the object holds. *)
get_goodslits_forgetful(ms, tsl) ==
    IF ms[2] # None THEN ms[2]
    ELSE IF maskslits = None THEN [s \in 0..(tsl.nslits - 1) |-> FALSE]
    ELSE [s \in DOMAIN maskslits |-> FALSE]

(* ScienceImage._get_goodslits, tsl being self.tslits_dict at the call *)
get_goodslits(ms, tsl) ==
    IF ms[2] # None THEN ms[2]
    ELSE IF maskslits = None THEN [s \in 0..(tsl.nslits - 1) |-> FALSE]
    ELSE maskslits

(* Line 545 subscripts self.tslits_dict. *)
goodslits_crash(ms, tsl) == ms[2] = None /\ maskslits = None /\ tsl = None

good_every(msl) == {s \in DOMAIN msl : TRUE}

good(msl) == {s \in DOMAIN msl : ~msl[s]}

(* The slits marked in the array that self.maskslits is. *)
still_marked(ms) == IF ms[1] = "new" THEN {} ELSE marked

SpecObjs_twice(slitids) == [slitid |-> slitids \o slitids]

SpecObjs(slitids) == [slitid |-> slitids]

falses == [p \in Pix |-> FALSE]

trues == [p \in Pix |-> TRUE]

(* inmask = (self.mask == 0) & (self.crmask == False) & thismask [& skymask], *)
(* as the set of pixels where it is true.                                  *)
inmask_unmasked(m, cr, sm, slit, sky) ==
    {p \in Pix : ~cr[p] /\ sm[p] = slit /\ sky[p]}

inmask(m, cr, sm, slit, sky) ==
    {p \in Pix : m[p] = 0 /\ ~cr[p] /\ sm[p] = slit /\ sky[p]}

(* What the loop over slits hands to the service, call by call. *)
handed(slits, m, cr, sm, sky, use_skymask) ==
    [i \in DOMAIN slits |->
        [inmask |-> inmask(m, cr, sm, slits[i], sky), use_skymask |-> use_skymask]]

(* _build_mask on an object proc has not filled: self.bpm.astype fails on  *)
(* None, and a bpm set by a failed proc cannot index the 0-d mask.         *)
build_mask_crash == IF bpm = None THEN "AttributeError" ELSE "IndexError"

---------------------------------------------------------------------------
(* ScienceImage.find_objects.  found: the slits on which objfind returns   *)
(* an object (it then takes the slit's pixels out of the sky mask).        *)

find_objects(tslits, ms, skysub, found) ==
    \E msl \in {get_goodslits(ms, tslits)},
       sm \in {IF slitmask = None THEN spectrograph_slitmask(tslits) ELSE slitmask} :
    \E gd \in {good(msl)} :
    \E objs \in {Asc(gd \cap found)} :
        /\ op' = Call("find_objects", ms[1], skysub)
        /\ calls' = calls + 1
        /\ UNCHANGED ret
        /\ tslits_dict' = tslits
        /\ maskslits' = msl
        /\ marked' = still_marked(ms)
        /\ gdslits' = gd
        /\ slitmask' = sm
        /\ crcalls' = <<>>
        /\ nread' = 0
        /\ UNCHANGED <<nsci, nbg, frames, weights_sum>>
        /\ UNCHANGED <<crmask, mask, tilts, waveimg, global_sky, unset>>
        /\ UNCHANGED imageVars
        /\ UNCHANGED localVars
        /\ IF mask = None
           THEN /\ err' = Raise(build_mask_crash, "_build_mask")
                /\ svc' = <<>>
                /\ inmasks' = <<>>
                /\ UNCHANGED <<skymask, objmask, sobjs_obj, nobj, steps>>
           ELSE IF skysub /\ global_sky = None
           THEN /\ err' = Raise("PypeItError", "Run global_skysub() first")
                /\ svc' = <<>>
                /\ inmasks' = <<>>
                /\ skymask' = falses
                /\ objmask' = falses
                /\ UNCHANGED <<sobjs_obj, nobj, steps>>
           ELSE /\ err' = Ok
                /\ svc' = Asc(gd)
                /\ inmasks' = handed(Asc(gd), mask, crmask, sm, trues, FALSE)
                /\ skymask' = [p \in Pix |-> sm[p] \in gd /\ sm[p] \notin found]
                /\ objmask' = [p \in Pix |-> sm[p] \in gd /\ sm[p] \in found]
                /\ sobjs_obj' = SpecObjs(objs)
                /\ nobj' = Len(objs)
                /\ steps' = Append(steps, "find_objects")

---------------------------------------------------------------------------
(* ScienceImage.global_skysub.  sky: what the sky fitter returns for each  *)
(* slit; newcr: lacosmic's answer on the sky-subtracted image.             *)

SkyKinds == {"fit", "zero", "cancel"}

SkyAt(kind, p) ==
    IF kind = "fit" THEN 2
    ELSE IF kind = "zero" THEN 0
    ELSE IF p % 2 = 1 THEN 1 ELSE -1

(* The failure test asking for a sky model that is zero at every pixel. *)
went_wrong_everywhere(gs, sm, slit) == \A p \in thismask(sm, slit) : gs[p] = 0

(* Line 367: np.sum(self.global_sky[thismask]) == 0. *)
went_wrong(gs, sm, slit) == SumOver(gs, thismask(sm, slit)) = 0

global_skysub(tslits, tilts_, use_skymask, update_crmask, ms, sky, newcr) ==
    \E msl \in {get_goodslits(ms, tslits)},
       sm \in {IF slitmask = None THEN spectrograph_slitmask(tslits) ELSE slitmask} :
    \E gd \in {good(msl)} :
    \E gs \in {[p \in Pix |-> IF sm[p] \in gd THEN SkyAt(sky[sm[p]], p) ELSE 0]} :
    \E wrong \in {{s \in gd : went_wrong(gs, sm, s)}} :
        /\ op' = Call("global_skysub", ms[1], update_crmask)
        /\ calls' = calls + 1
        /\ UNCHANGED ret
        /\ tslits_dict' = tslits
        /\ tilts' = tilts_
        /\ gdslits' = gd
        /\ slitmask' = sm
        /\ nread' = 0
        /\ UNCHANGED <<nsci, nbg, frames, weights_sum>>
        /\ UNCHANGED <<waveimg, skymask, objmask, sobjs_obj, nobj, unset>>
        /\ UNCHANGED imageVars
        /\ UNCHANGED localVars
        /\ IF mask = None
           THEN /\ err' = Raise(build_mask_crash, "_build_mask")
                /\ svc' = <<>>
                /\ inmasks' = <<>>
                /\ crcalls' = <<>>
                /\ maskslits' = msl
                /\ marked' = still_marked(ms)
                /\ UNCHANGED <<global_sky, crmask, mask, steps>>
           ELSE /\ err' = Ok
                /\ svc' = Asc(gd)
                /\ inmasks' = handed(Asc(gd), mask, crmask, sm,
                                      IF skymask # None /\ use_skymask THEN skymask ELSE trues,
                                      use_skymask)
                /\ global_sky' = gs
                /\ maskslits' = [s \in DOMAIN msl |-> msl[s] \/ s \in wrong]
                /\ marked' = still_marked(ms) \cup wrong
                /\ IF update_crmask
                   THEN /\ crmask' = newcr
                        /\ mask' = build_mask(bpm, sm, sciimg, sciivar, newcr, PyTrue, sm)
                        /\ crcalls' = <<"skysub">>
                   ELSE /\ UNCHANGED <<crmask, mask>>
                        /\ crcalls' = <<>>
                /\ steps' = Append(steps, "global_skysub")

---------------------------------------------------------------------------
(* ScienceImage._chk_objs: the first item that is None, and the stage its  *)
(* warning names.  items: <<name, value>> pairs in the order checked.      *)

RECURSIVE chk_objs(_)
chk_objs(items) ==
    IF items = <<>> THEN ""
    ELSE IF Head(items)[2] = None THEN Head(items)[1]
    ELSE chk_objs(Tail(items))

chk_hint(obj) ==
    IF obj \in {"sciimg", "sciivar", "rn2_img"} THEN "Run the process() method"
    ELSE IF obj \in {"sobjs_obj"} THEN "Run the find_objects() method"
    ELSE IF obj \in {"global_sky"} THEN "Run the global_skysub() method"
    ELSE IF obj \in {"tilts", "tslits_dict"} THEN "Calibrations missing"
    ELSE IF obj \in {"waveimg"} THEN "Calibrations missing: waveimg"
    ELSE ""

---------------------------------------------------------------------------
(* ScienceImage.local_skysub_extract.  badpix: the pixel (0: none) at      *)
(* which the extraction returns an invalid extractmask; what the fitter    *)
(* returns elsewhere in a slit is FitSky, FitObj, FitIvar and valid.       *)

FitSky == 7
FitObj == 1
FitIvar == QInt(2)

(* The extraction bit added one place too low. *)
add_extract_low(m) == m + Pow2(7)

(* Line 510: self.outmask[iextract] += np.uint64(2**8). *)
add_extract(m) == m + Pow2(8)

(* iextract without the test of the composite mask. *)
iextract_any(m, ext) == ~ext

(* Line 509: iextract = (self.mask == 0) & (self.extractmask == False). *)
iextract(m, ext) == m = 0 /\ ~ext

local_skysub_extract(sobjs_, waveimg_, ms, badpix) ==
    \E crash \in {goodslits_crash(ms, tslits_dict)} :
    \E msl \in {IF crash THEN None ELSE get_goodslits(ms, tslits_dict)} :
    \E gd \in {good(msl)} :
    LET missing == chk_objs(<< <<"sciimg", sciimg>>, <<"sciivar", sciivar>>,
                               <<"rn2img", rn2img>>, <<"global_sky", global_sky>>,
                               <<"tilts", tilts>>, <<"waveimg", waveimg_>>,
                               <<"tslits_dict", tslits_dict>> >>)
        done == {s \in gd : s \in Range(sobjs_.slitid)}
        touched(p) == \E s \in done : p \in thismask(slitmask, s)
        ext == [p \in Pix |-> IF touched(p) THEN p # badpix ELSE mask[p] = 0]
    IN  /\ op' = Call("local_skysub_extract", ms[1], FALSE)
        /\ calls' = calls + 1
        /\ UNCHANGED ret
        /\ waveimg' = waveimg_
        /\ crcalls' = <<>>
        /\ nread' = 0
        /\ UNCHANGED <<nsci, nbg, frames, weights_sum>>
        /\ UNCHANGED <<crmask, mask, tslits_dict, tilts, global_sky,
                       skymask, objmask, sobjs_obj, nobj>>
        /\ UNCHANGED imageVars
        /\ unset' = unset \ {"waveimg"}
        /\ IF crash
           THEN /\ err' = Raise("TypeError", "self.tslits_dict['lcen']")
                /\ svc' = <<>>
                /\ inmasks' = <<>>
                /\ gdslits' = {}
                /\ UNCHANGED <<maskslits, marked, slitmask, steps>>
                /\ UNCHANGED localVars
           ELSE /\ maskslits' = msl
                /\ marked' = still_marked(ms)
                /\ gdslits' = gd
                /\ IF slitmask = None
                   THEN /\ err' = Raise("TypeError", "spectrograph.slitmask(None)")
                        /\ svc' = <<>>
                        /\ inmasks' = <<>>
                        /\ UNCHANGED <<slitmask, steps>>
                        /\ UNCHANGED localVars
                   ELSE IF missing # ""
                   THEN /\ err' = Raise("PypeItError", chk_hint(missing))
                        /\ svc' = <<>>
                        /\ inmasks' = <<>>
                        /\ UNCHANGED <<slitmask, steps>>
                        /\ UNCHANGED localVars
                   ELSE /\ err' = Ok
                        /\ svc' = Asc(done)
                        /\ inmasks' = handed(Asc(done), mask, crmask, slitmask, trues, FALSE)
                        /\ UNCHANGED slitmask
                        /\ sobjs' = sobjs_
                        /\ extractmask' = ext
                        /\ objmodel' = [p \in Pix |-> IF touched(p) THEN FitObj ELSE 0]
                        /\ skymodel' = [p \in Pix |-> IF touched(p) THEN FitSky ELSE global_sky[p]]
                        /\ ivarmodel' = [p \in Pix |-> IF touched(p) THEN FitIvar ELSE sciivar[p]]
                        /\ outmask' = [p \in Pix |->
                                         IF iextract(mask[p], ext[p])
                                         THEN add_extract(mask[p]) ELSE mask[p]]
                        /\ steps' = Append(steps, "local_skysub_extract")

---------------------------------------------------------------------------
(* The frame stack on its own: one proc call on a new object, over every   *)
(* stack of exposures that differ at pixel 1.                              *)

StackFrames(hot) ==
    {[i \in 1..(nsci + nbg) |-> Frame(hot, IF i <= nsci THEN on[i] ELSE off[i - nsci])] :
        on \in Exposures(FrameKinds(~ir_redux), nsci),
        off \in Exposures(FrameKinds(FALSE), nbg)}

InitStack ==
    /\ nsci \in 1..MaxSci
    /\ nbg \in 0..MaxBg
    /\ frames \in StackFrames(1)
    /\ ret = None
    /\ Fresh

ProcStack ==
    /\ op.name = "__init__"
    /\ \E b \in BOOLEAN, sigma_clip \in BOOLEAN :
       \E clip \in (IF sigma_clip /\ nsci > 2 /\ ~ir_redux THEN 0..nsci ELSE {0}),
          crf \in (IF ir_redux /\ ~sigma_clip THEN BOOLEAN ELSE {FALSE}) :
          proc(frames, Hot(1, b), sigma_clip, 1, clip, Hot(1, crf))

NextStack == ProcStack

SpecStack == InitStack /\ [][NextStack]_vars

---------------------------------------------------------------------------
(* The reduction: proc on identical exposures, then the stages in any      *)
(* order, each with any of its arguments, MaxCalls calls in all.           *)

(* The exposures of one reduction are alike: flat but for the second       *)
(* pixel, which is saturated in the science frames.                        *)
AlikeFrames ==
    {[i \in 1..(nsci + nbg) |->
         Frame(2, [img |-> IF i <= nsci THEN saturation ELSE 1, var |-> 1, cr |-> FALSE])]}

Init ==
    /\ nsci \in {1, MaxSci}
    /\ nbg \in {0, MaxBg}
    /\ frames \in AlikeFrames
    /\ ret = None
    /\ Fresh

Proc ==
    /\ calls < MaxCalls
    /\ sciimg = None
    /\ \E sigma_clip \in BOOLEAN :
       \E crf \in (IF ir_redux /\ ~sigma_clip THEN BOOLEAN ELSE {FALSE}) :
          proc(frames, Hot(1, FALSE), sigma_clip, 2, 0, Hot(1, crf))

(* The sky fit succeeds on every slit but perhaps the first. *)
SkyFits == {[s \in Slits |-> IF s = 0 THEN k ELSE "fit"] : k \in SkyKinds}

(* The calibrations of one reduction do not change between its stages. *)
Calibrations == IF tslits_dict = None THEN TslitsDicts ELSE {tslits_dict}

TiltsImg == [p \in Pix |-> p]
WaveImg == [p \in Pix |-> 10 * p]

FindObjects ==
    /\ calls < MaxCalls
    /\ \E tslits \in Calibrations, ms \in MaskslitsArgs, skysub \in BOOLEAN,
          found \in {{}, {0}} :
          find_objects(tslits, ms, skysub, found)

GlobalSkysub ==
    /\ calls < MaxCalls
    /\ \E tslits \in Calibrations, ms \in MaskslitsArgs,
          use_skymask \in BOOLEAN, update_crmask \in BOOLEAN,
          sky \in SkyFits :
          global_skysub(tslits, TiltsImg, use_skymask, update_crmask, ms, sky,
                        Hot(NPix, TRUE))

LocalSkysubExtract ==
    /\ calls < MaxCalls
    /\ \E ms \in MaskslitsArgs, badpix \in {0, 1, 2},
          sobjs_ \in (IF sobjs_obj # None THEN {sobjs_obj} ELSE {SpecObjs(Asc(Slits))}) :
          local_skysub_extract(sobjs_, WaveImg, ms, badpix)

Next == Proc \/ FindObjects \/ GlobalSkysub \/ LocalSkysubExtract

Spec == Init /\ [][Next]_vars

---------------------------------------------------------------------------
(* _build_mask on its own: an object that holds the images of one          *)
(* exposure, which differ from a clean flat at the last pixel only, and    *)
(* direct calls of _build_mask on those images.                            *)

PyFalse == 0

PixVals == {Q(-2, 1), QInt(1), QInt(saturation), <<1, 0>>, <<0, 0>>}
IvarVals == {QZero, QInt(1), <<1, 0>>, <<0, 0>>}
MincountsArgs == {PyTrue, PyFalse, PyInvert(TRUE), PyInvert(FALSE)}

ImgAt(hot, v, flat) == [p \in Pix |-> IF p = hot THEN v ELSE flat]

InitMask ==
    /\ nsci = 1 /\ nbg = 0 /\ frames = <<>>
    /\ ret = None
    /\ \E b \in BOOLEAN, cr \in BOOLEAN, v \in PixVals, iv \in IvarVals,
          tsl \in {None} \cup TslitsDicts :
        /\ bpm = Hot(NPix, b)
        /\ sciimg = ImgAt(NPix, v, QInt(1))
        /\ sciivar = ImgAt(NPix, iv, QInt(1))
        /\ rn2img = ImgAt(NPix, QInt(1), QInt(1))
        /\ crmask = Hot(NPix, cr)
        /\ mask = build_mask(bpm, None, sciimg, sciivar, crmask, PyInvert(ir_redux), None)
        /\ tslits_dict = tsl
        /\ slitmask = IF tsl = None THEN None ELSE spectrograph_slitmask(tsl)
        /\ maskslits = IF tsl = None THEN None ELSE [s \in Slits |-> FALSE]
    /\ tilts = None /\ waveimg = None
    /\ global_sky = None /\ skymask = None /\ objmask = None
    /\ sobjs_obj = None /\ nobj = None /\ sobjs = None
    /\ outmask = None /\ extractmask = None
    /\ objmodel = None /\ skymodel = None /\ ivarmodel = None
    /\ steps = <<>>
    /\ unset = {"waveimg", "objmodel", "skymodel", "nobj"}
    /\ weights_sum = None
    /\ op = Call("proc", "None", FALSE) /\ err = Ok
    /\ gdslits = {} /\ svc = <<>> /\ crcalls = <<"frame">> /\ nread = 1
    /\ inmasks = <<>>
    /\ marked = {}
    /\ calls = 1

(* A direct call self._build_mask(self.sciimg, self.sciivar, self.crmask,  *)
(* mincounts=mincounts_, slitmask=self.slitmask or None): it returns the   *)
(* mask and assigns nothing.                                               *)
build_mask_call_assigning(mincounts_, with_slitmask) ==
    /\ ret' = [call |-> "_build_mask", args |-> <<mincounts_, with_slitmask>>,
               value |-> build_mask(bpm, slitmask, sciimg, sciivar, crmask, mincounts_,
                                    IF with_slitmask THEN slitmask ELSE None)]
    /\ mask' = ret'.value
    /\ UNCHANGED <<bpm, sciimg, sciivar, rn2img, crmask, unset, weights_sum>>
    /\ UNCHANGED stageVars

build_mask_call(mincounts_, with_slitmask) ==
    /\ ret' = [call |-> "_build_mask", args |-> <<mincounts_, with_slitmask>>,
               value |-> build_mask(bpm, slitmask, sciimg, sciivar, crmask, mincounts_,
                                    IF with_slitmask THEN slitmask ELSE None)]
    /\ UNCHANGED <<bpm, sciimg, sciivar, rn2img, crmask, mask, unset, weights_sum>>
    /\ UNCHANGED stageVars

BuildMask ==
    /\ calls < MaxCalls
    /\ \E mincounts_ \in MincountsArgs,
          with_slitmask \in (IF slitmask = None THEN {FALSE} ELSE BOOLEAN) :
        /\ build_mask_call(mincounts_, with_slitmask)
        /\ op' = Call("_build_mask", "None", FALSE)
        /\ calls' = calls + 1
        /\ err' = Ok
        /\ gdslits' = {} /\ svc' = <<>> /\ crcalls' = <<>> /\ nread' = 0
        /\ inmasks' = <<>>
        /\ UNCHANGED <<nsci, nbg, frames>>

NextMask == BuildMask

SpecMask == InitMask /\ [][NextMask]_vars

---------------------------------------------------------------------------
(* The bit mask on its own: flags turned on one after another in a value   *)
(* that starts at 0.                                                       *)

InitBits ==
    /\ nsci = 1 /\ nbg = 0 /\ frames = <<>>
    /\ ret = None
    /\ Fresh

TurnOn ==
    \E n \in {Flags[i] : i \in DOMAIN Flags},
       v \in {IF ret = None THEN 0 ELSE ret.value} :
        /\ ret' = [call |-> "turn_on", args |-> <<v, n>>, value |-> turn_on(v, n)]
        /\ UNCHANGED <<nsci, nbg, frames, weights_sum, unset, op, err, gdslits, svc, inmasks,
                       crcalls, nread, calls, crmask, mask>>
        /\ UNCHANGED imageVars
        /\ UNCHANGED stageVars

NextBits == TurnOn

SpecBits == InitBits /\ [][NextBits]_vars

---------------------------------------------------------------------------
(* Properties *)

Done(name) == op.name = name /\ err = Ok

(* The mask read_stack built for file i at pixel p in the last proc. *)
FrameMask(i, p) == read_stack(frames, bpm, ~ir_redux, i, p).mask

Files == 1..(nsci + nbg)

StageHints == {"Run the process() method", "Run the find_objects() method",
               "Run the global_skysub() method"}

(* C1: local_skysub_extract as the first call on a new object, with no     *)
(* maskslits argument, fails with the missing-prerequisite error that      *)
(* names the stage to run, and with no other exception.                    *)
C1_MissingPrerequisite ==
    (op.name = "local_skysub_extract" /\ calls = 1 /\ op.ms = "kept")
        => (err.kind = "PypeItError" /\ err.msg \in StageHints)

(* C2: a pixel with SATURATION set in the composite mask, which the        *)
(* extraction of its slit returns as invalid, has both SATURATION and      *)
(* EXTRACT set in the outmask local_skysub_extract returns.                *)
C2_BothBits ==
    Done("local_skysub_extract") =>
        \A p \in Pix :
            (flagged(mask[p], "SATURATION") /\ slitmask[p] \in Range(svc)
                /\ ~extractmask[p])
            => (flagged(outmask[p], "SATURATION") /\ flagged(outmask[p], "EXTRACT"))

(* C2 as amended: such a pixel keeps SATURATION in the outmask and does    *)
(* not get EXTRACT, which is added only where the composite mask was 0.    *)
C2_KeepsSaturationOnly ==
    Done("local_skysub_extract") =>
        \A p \in Pix :
            /\ (flagged(mask[p], "SATURATION") /\ slitmask[p] \in Range(svc)
                    /\ ~extractmask[p])
               => (flagged(outmask[p], "SATURATION") /\ ~flagged(outmask[p], "EXTRACT"))
            /\ flagged(outmask[p], "EXTRACT") => mask[p] = 0

C2_Witness ==
    /\ Done("local_skysub_extract")
    /\ \E p \in Pix :
        /\ flagged(mask[p], "SATURATION")
        /\ slitmask[p] \in Range(svc)
        /\ ~extractmask[p]

(* C3: in difference imaging, at a pixel where every science frame holds a *)
(* and every background frame holds b and no frame is masked, the image    *)
(* proc returns holds a - b, for any number of frames of either list.      *)
C3_Difference ==
    (Done("proc") /\ ir_redux) =>
        \A p \in Pix : \A a \in Vals, b \in Vals :
            (/\ \A i \in 1..nsci : frames[i].sciimg[p] = QInt(a)
             /\ \A i \in (nsci + 1)..(nsci + nbg) : frames[i].sciimg[p] = QInt(b)
             /\ \A i \in Files : FrameMask(i, p) = 0)
            => sciimg[p] = QInt(a - b)

(* C4: after proc in difference imaging with two science frames or more,   *)
(* no pixel of the composite mask has MINCOUNTS set.                       *)
C4_NoMincounts ==
    (Done("proc") /\ ir_redux /\ nsci >= 2) =>
        \A p \in Pix : ~flagged(mask[p], "MINCOUNTS")

(* C5: after a global_skysub call the sky fitter has been called for every *)
(* slit that was good at entry, in order; such a slit is excluded exactly  *)
(* when the sky model written in it sums to zero, and the other slits'     *)
(* entries are as they were (excluded).                                    *)
C5_ExcludesZeroSum ==
    Done("global_skysub") =>
        /\ svc = Asc(gdslits)
        /\ \A s \in DOMAIN maskslits :
            IF s \in gdslits
            THEN maskslits[s] <=> (SumOver(global_sky, thismask(slitmask, s)) = 0)
            ELSE maskslits[s]

C5_Witness ==
    /\ Done("global_skysub")
    /\ \E s \in gdslits, t \in gdslits :
        /\ maskslits[s]
        /\ \E p \in thismask(slitmask, s) : global_sky[p] # 0
        /\ ~maskslits[t]
        /\ s < t

(* C6: when local_skysub_extract runs with no maskslits argument or with   *)
(* the array the object holds, a slit global_skysub has excluded in that   *)
(* array is not handed to the fitter, and in its pixels skymodel is        *)
(* global_sky, objmodel is 0 and ivarmodel is sciivar.                     *)
C6_SkipsExcluded ==
    (Done("local_skysub_extract") /\ op.ms = "kept") =>
        \A s \in marked :
            /\ s \notin Range(svc)
            /\ \A p \in thismask(slitmask, s) :
                /\ skymodel[p] = global_sky[p]
                /\ objmodel[p] = 0
                /\ ivarmodel[p] = sciivar[p]

C6_Witness ==
    /\ Done("local_skysub_extract")
    /\ op.ms = "kept"
    /\ \E s \in marked :
        /\ s \in Range(sobjs.slitid)
        /\ thismask(slitmask, s) # {}
    /\ svc # <<>>

(* C7: when proc stacks two science frames or more without background      *)
(* frames, the cosmic-ray mask is true at a pixel exactly when lacosmic    *)
(* flagged the pixel in every frame.                                       *)
C7_EveryFrame ==
    (Done("proc") /\ ~ir_redux /\ nsci >= 2) =>
        \A p \in Pix : crmask[p] <=> (\A i \in 1..nsci : frames[i].cr[p])

C7_Witness ==
    /\ Done("proc") /\ ~ir_redux /\ nsci >= 2
    /\ \E p \in Pix :
        /\ Cardinality({i \in 1..nsci : frames[i].cr[p]}) = nsci - 1
        /\ ~crmask[p]

(* C8: proc with sigma_clip on an object with background frames fails with *)
(* the configuration error, having read no frame, run no cosmic-ray        *)
(* detection and set no image, variance or mask.                           *)
C8_RefusesClip ==
    (op.name = "proc" /\ ir_redux /\ op.flag) =>
        /\ err.kind = "PypeItError"
        /\ nread = 0
        /\ crcalls = <<>>
        /\ sciimg = None /\ sciivar = None /\ crmask = None /\ mask = None

C8_Witness ==
    /\ op.name = "proc" /\ ir_redux /\ op.flag
    /\ err.kind = "PypeItError"

(* C9: find_objects and global_skysub, called before proc has set the      *)
(* images, fail with the missing-prerequisite error that names proc.       *)
C9_NamesProc ==
    (op.name \in {"find_objects", "global_skysub"} /\ sciimg = None)
        => (err.kind = "PypeItError" /\ err.msg = "Run the process() method")

(* The weighted sum of the frames proc uses at pixel p, not normalised. *)
UsedSum(p) ==
    QSum([i \in Files |->
            IF FrameMask(i, p) = 0 THEN QMul(weights(i), frames[i].sciimg[p]) ELSE QZero],
         nsci + nbg)

NoDivisionByZero(p) == isfinite(sciimg[p]) /\ isfinite(rn2img[p])

(* C10: when proc stacks, with or without background frames, a pixel where *)
(* the weights used sum to zero has the value zero, and nothing is divided *)
(* by zero.                                                                *)
C10_ZeroWeightZeroValue ==
    (Done("proc") /\ nsci > 1) =>
        \A p \in Pix :
            /\ NoDivisionByZero(p)
            /\ weights_sum[p] = QZero => sciimg[p] = QZero

(* C10 as amended: nothing is divided by zero; without background frames a *)
(* pixel where the weights used sum to zero has the value zero, and in     *)
(* difference imaging it has the weighted sum of its unmasked frames.      *)
C10_ZeroWeightUnnormalised ==
    (Done("proc") /\ nsci > 1) =>
        \A p \in Pix :
            /\ NoDivisionByZero(p)
            /\ weights_sum[p] = QZero =>
                sciimg[p] = (IF ir_redux THEN UsedSum(p) ELSE QZero)

C10_Witness ==
    /\ Done("proc") /\ nsci > 1 /\ ir_redux
    /\ \E p \in Pix : weights_sum[p] = QZero /\ sciimg[p] # QZero

FlagNames == {Flags[i] : i \in DOMAIN Flags}

(* C11: a completed local_skysub_extract leaves self.mask as it was; the   *)
(* outmask it returns has every bit of the mask, differs from it in no     *)
(* bit but EXTRACT, and has EXTRACT exactly where the mask was 0 and the   *)
(* extraction mask is false after the slit loop.                           *)
C11_ExtendsMask ==
    [][(op'.name = "local_skysub_extract" /\ calls' = calls + 1 /\ err' = Ok) =>
        /\ mask' = mask
        /\ \A p \in Pix :
            /\ \A n \in FlagNames : flagged(mask[p], n) => flagged(outmask'[p], n)
            /\ \A n \in FlagNames \ {"EXTRACT"} :
                  flagged(outmask'[p], n) => flagged(mask[p], n)
            /\ flagged(outmask'[p], "EXTRACT") <=> (mask[p] = 0 /\ ~extractmask'[p])]_vars

C11_Witness ==
    /\ Done("local_skysub_extract")
    /\ \E p \in Pix : flagged(outmask[p], "EXTRACT")
    /\ \E p \in Pix : mask[p] # 0 /\ outmask[p] = mask[p]

(* C12: without background frames and without sigma clipping, at a pixel   *)
(* where each of the N frames holds v with inverse variance 1 and none is  *)
(* masked, proc returns the value v and the inverse variance N, for any N. *)
C12_IdenticalFrames ==
    (Done("proc") /\ ~ir_redux /\ ~op.flag) =>
        \A p \in Pix : \A v \in Vals :
            (\A i \in 1..nsci :
                /\ frames[i].sciimg[p] = QInt(v)
                /\ frames[i].rawvar[p] = QInt(1)
                /\ FrameMask(i, p) = 0)
            => (sciimg[p] = QInt(v) /\ sciivar[p] = QInt(nsci))

C12_Witness ==
    /\ Done("proc") /\ ~ir_redux /\ ~op.flag /\ nsci = MaxSci
    /\ \E p \in Pix :
        /\ \A i \in 1..nsci : frames[i].sciimg[p] = QInt(3) /\ FrameMask(i, p) = 0
        /\ sciivar[p] = QInt(nsci)


(* C13: a call of _build_mask with mincounts=False returns a mask with no  *)
(* MINCOUNTS bit at any pixel, whatever the pixel values, and with every   *)
(* other bit of _build_mask set exactly where its condition holds.         *)
C13_NeverMincounts ==
    (ret # None /\ ret.call = "_build_mask" /\ ret.args[1] = PyFalse) =>
        \A p \in Pix :
            /\ ~flagged(ret.value[p], "MINCOUNTS")
            /\ flagged(ret.value[p], "BPM") <=> bpm[p]
            /\ flagged(ret.value[p], "CR") <=> crmask[p]
            /\ flagged(ret.value[p], "SATURATION") <=> QLe(QInt(saturation), sciimg[p])
            /\ flagged(ret.value[p], "OFFSLITS") <=> (ret.args[2] /\ slitmask[p] = -1)
            /\ flagged(ret.value[p], "IS_NAN") <=> ~isfinite(sciimg[p])
            /\ flagged(ret.value[p], "IVAR0") <=> ~QGt(sciivar[p], QZero)
            /\ flagged(ret.value[p], "IVAR_NAN") <=> ~isfinite(sciivar[p])
            /\ ~flagged(ret.value[p], "EXTRACT")

C13_Witness ==
    /\ ret # None /\ ret.call = "_build_mask" /\ ret.args[1] = PyFalse
    /\ \E p \in Pix :
        /\ QLe(sciimg[p], QInt(mincounts))
        /\ flagged(mask[p], "MINCOUNTS")
        /\ flagged(ret.value[p], "BPM")
        /\ flagged(ret.value[p], "OFFSLITS")

C15_DistinctBits ==
    (ret # None /\ ret.call = "turn_on") =>
        \A m \in FlagNames :
            flagged(ret.value, m) <=> (m = ret.args[2] \/ flagged(ret.args[1], m))

C15_Witness ==
    /\ ret # None /\ ret.call = "turn_on"
    /\ ret.args[1] = 0 /\ ret.args[2] = "EXTRACT"
    /\ flagged(ret.value, "EXTRACT") /\ ~flagged(ret.value, "IVAR_NAN")

(* The sum of the weights of the frames whose own mask is 0 at pixel p. *)
UsedWeight(p) ==
    QSum([i \in Files |-> IF FrameMask(i, p) = 0 THEN weights(i) ELSE QZero], nsci + nbg)

(* C16: when proc stacks several frames and does not sigma clip (it was    *)
(* not asked to, or it was asked to with fewer than 3 science frames), it  *)
(* completes, and a frame's pixel goes into the stack exactly when that    *)
(* frame's own mask is 0 there.                                            *)
C16_MasksAloneDecide ==
    (op.name = "proc" /\ nsci > 1 /\ ~clip_refused(op.flag) /\ ~(op.flag /\ nsci > 2)) =>
        /\ err = Ok
        /\ \A p \in Pix :
            /\ weights_sum[p] = UsedWeight(p)
            /\ sciimg[p] = QDiv(UsedSum(p), divisor(weights_sum[p]))

(* C17: after every completed proc or global_skysub, in every mode, the CR *)
(* bit of self.mask is set at exactly the pixels where self.crmask is      *)
(* true.                                                                   *)
C17_CRBitIsCrmask ==
    (Done("proc") \/ Done("global_skysub")) =>
        \A p \in Pix : flagged(mask[p], "CR") <=> crmask[p]

(* C18: after a completed find_objects or global_skysub on an object whose *)
(* image proc made, every pixel that the slit map gives to no slit (-1)    *)
(* has the OFFSLITS bit in self.mask, whatever update_crmask was.          *)
C18_OffslitsFlagged ==
    ((Done("find_objects") \/ Done("global_skysub")) /\ sciimg # None) =>
        \A p \in Pix : slitmask[p] = -1 => flagged(mask[p], "OFFSLITS")

(* C19: in difference imaging with the science frames a and the background *)
(* frames b at a pixel, where at least one science frame and at least one  *)
(* background frame are unmasked, the combined value is a - b, whichever   *)
(* other frames are masked there.                                          *)
C19_PartlyMasked ==
    (Done("proc") /\ ir_redux /\ nsci > 1) =>
        \A p \in Pix : \A a \in Vals, b \in Vals :
            (/\ \A i \in 1..nsci : frames[i].sciimg[p] = QInt(a)
             /\ \A i \in (nsci + 1)..(nsci + nbg) : frames[i].sciimg[p] = QInt(b)
             /\ \E i \in 1..nsci : FrameMask(i, p) = 0
             /\ \E i \in (nsci + 1)..(nsci + nbg) : FrameMask(i, p) = 0)
            => sciimg[p] = QInt(a - b)

C21_FailureLeavesState ==
    [][(op'.name = "find_objects" /\ calls' = calls + 1 /\ err'.kind = "PypeItError") =>
        UNCHANGED <<skymask, objmask, sobjs_obj, maskslits, steps>>]_vars

(* C22: once local_skysub_extract has completed, a find_objects or         *)
(* global_skysub call is refused, or it invalidates the outputs of         *)
(* local_skysub_extract; it never completes with global_sky, crmask or     *)
(* mask replaced and those outputs left in place.                          *)
C22_RerunInvalidates ==
    [][(/\ skymodel # None
        /\ op'.name \in {"find_objects", "global_skysub"} /\ calls' = calls + 1
        /\ err' = Ok
        /\ <<sobjs, outmask, extractmask, objmodel, skymodel, ivarmodel>>'
             = <<sobjs, outmask, extractmask, objmodel, skymodel, ivarmodel>>)
       => UNCHANGED <<global_sky, crmask, mask>>]_vars

(* The slits whose edge traces break left < right. *)
BadEdges(t) == {s \in Slits : ~(t.lcen[s] < t.rcen[s])}

(* C23: after find_objects or global_skysub, a slit whose edge traces      *)
(* break left < right is excluded in maskslits and the service was not     *)
(* invoked for it, while every other slit that was not excluded was        *)
(* processed.                                                              *)
C23_BadEdgesExcluded ==
    (Done("find_objects") \/ Done("global_skysub")) =>
        /\ \A s \in BadEdges(tslits_dict) : maskslits[s] /\ s \notin Range(svc)
        /\ \A s \in gdslits \ BadEdges(tslits_dict) : s \in Range(svc)

(* C24: in every service call of find_objects, global_skysub and           *)
(* local_skysub_extract the inmask handed over is true only at pixels of   *)
(* that slit whose mask is 0 and whose crmask is false at the call; in     *)
(* global_skysub with use_skymask after find_objects has run, only where   *)
(* skymask is true as well.                                                *)
C24_InclusionMask ==
    [][(calls' = calls + 1 /\ err' = Ok) =>
        \A i \in DOMAIN svc' : \A p \in inmasks'[i].inmask :
            /\ slitmask'[p] = svc'[i]
            /\ mask[p] = 0
            /\ ~crmask[p]
            /\ (op'.name = "global_skysub" /\ inmasks'[i].use_skymask /\ skymask # None)
                  => skymask[p]]_vars

C24_Witness ==
    /\ Done("global_skysub")
    /\ \E i \in DOMAIN svc :
        /\ inmasks[i].use_skymask /\ skymask # None
        /\ inmasks[i].inmask # {}
    /\ \E i \in DOMAIN svc : \E p \in thismask(slitmask, svc[i]) : p \notin inmasks[i].inmask

(* The slits local_skysub_extract processes: not excluded, with an object. *)
Extracted == {s \in good(maskslits) : s \in Range(sobjs.slitid)}

(* C25: after local_skysub_extract, at every pixel outside the slits that  *)
(* are not excluded and have an object (excluded slits, slits without      *)
(* objects, pixels off the slits), skymodel is global_sky, objmodel is 0,  *)
(* ivarmodel is sciivar and extractmask is (mask == 0).                    *)
C25_DefaultsElsewhere ==
    Done("local_skysub_extract") =>
        \A p \in Pix : slitmask[p] \notin Extracted =>
            /\ skymodel[p] = global_sky[p]
            /\ objmodel[p] = 0
            /\ ivarmodel[p] = sciivar[p]
            /\ extractmask[p] <=> (mask[p] = 0)

C25_Witness ==
    /\ Done("local_skysub_extract")
    /\ \E p \in Pix : slitmask[p] = -1
    /\ \E p \in Pix : slitmask[p] # -1 /\ maskslits[slitmask[p]]
    /\ \E p \in Pix : slitmask[p] \in good(maskslits) \ Range(sobjs.slitid)
    /\ \E p \in Pix : slitmask[p] \in Extracted /\ objmodel[p] = FitObj

(* Line 681: the image proc hands to the detector after stacking is        *)
(* self.sciimg.                                                            *)
stack_crimage == sciimg

(* The weighted sum of all the frames at pixel p: mean of the science      *)
(* frames minus mean of the background frames.                             *)
Differenced(p) ==
    QSum([i \in Files |-> QMul(weights(i), frames[i].sciimg[p])], nsci + nbg)

(* C26: in a completed proc the cosmic-ray detector runs, without          *)
(* background frames, once on each raw frame in turn and never on the      *)
(* stack; with background frames, on no single frame and once, after the   *)
(* stacking, on the differenced image.                                     *)
C26_DetectorPattern ==
    Done("proc") =>
        IF nbg = 0
        THEN crcalls = [i \in 1..nsci |-> "frame"] /\ nread = nsci
        ELSE /\ crcalls = <<"stack">> /\ nread = nsci + nbg
             /\ \A p \in Pix : (\A i \in Files : FrameMask(i, p) = 0)
                    => stack_crimage[p] = Differenced(p)

Stages == {"find_objects", "global_skysub", "local_skysub_extract"}

(* C27: in each of find_objects, global_skysub and local_skysub_extract    *)
(* the service is invoked in strictly increasing slit order (so at most    *)
(* once per slit) and only for slits not excluded when the call started;   *)
(* local_skysub_extract invokes it only for slits with an object in the    *)
(* object list.                                                            *)
C27_ServiceOrder ==
    [][(calls' = calls + 1 /\ op'.name \in Stages) =>
        /\ \A i \in DOMAIN svc', j \in DOMAIN svc' : i < j => svc'[i] < svc'[j]
        /\ Range(svc') \subseteq gdslits'
        /\ (op'.ms = "kept" /\ maskslits # None) => Range(svc') \subseteq good(maskslits)
        /\ (op'.name = "local_skysub_extract" /\ err' = Ok)
              => Range(svc') \subseteq Range(sobjs'.slitid)]_vars

C27_Witness ==
    /\ Done("global_skysub") /\ op.ms = "kept"
    /\ Len(svc) >= 2
    /\ gdslits # Slits

(* C28: find_objects changes no entry of maskslits: the entries after the  *)
(* call are those the loop started with; a slit in which the finder found  *)
(* no object adds nothing to the object list and stays non-excluded; nobj  *)
(* is the number of objects found over the slits processed.                *)
C28_FindKeepsSelection ==
    [][(op'.name = "find_objects" /\ calls' = calls + 1 /\ err' = Ok) =>
        /\ good(maskslits') = gdslits'
        /\ (op'.ms = "kept" /\ maskslits # None) => maskslits' = maskslits
        /\ \A s \in gdslits' :
              (\A p \in thismask(slitmask', s) : ~objmask'[p])
                 => s \notin Range(sobjs_obj'.slitid) /\ ~maskslits'[s]
        /\ Range(sobjs_obj'.slitid) \subseteq Range(svc')
        /\ nobj' = Cardinality({s \in Range(svc') : \E p \in thismask(slitmask', s) : objmask'[p]})
        /\ nobj' = Len(sobjs_obj'.slitid)]_vars

C28_Witness ==
    /\ Done("find_objects")
    /\ nobj = 1
    /\ \E s \in gdslits : s \notin Range(sobjs_obj.slitid) /\ ~maskslits[s]
                          /\ thismask(slitmask, s) # {}

(* C29: a completed global_skysub with update_crmask False on an object    *)
(* that has a mask does not run the cosmic-ray detector and leaves crmask  *)
(* and mask as they were; with update_crmask True it runs the detector     *)
(* once, crmask becomes its answer and mask is rebuilt from that crmask.   *)
C29_UpdateCrmask ==
    [][(op'.name = "global_skysub" /\ calls' = calls + 1 /\ err' = Ok /\ mask # None) =>
        IF op'.flag
        THEN /\ crcalls' = <<"skysub">>
             /\ \A p \in Pix : flagged(mask'[p], "CR") <=> crmask'[p]
        ELSE /\ crcalls' = <<>>
             /\ UNCHANGED <<crmask, mask>>]_vars

C29_Witness ==
    /\ Done("global_skysub") /\ ~op.flag
    /\ steps = <<"global_skysub", "global_skysub">>
    /\ \E p \in Pix : crmask[p] /\ flagged(mask[p], "CR")

(* The science frames whose own mask is 0 at pixel p, and the sum of one   *)
(* of their images there.                                                  *)
Unmasked(p) == {i \in 1..nsci : FrameMask(i, p) = 0}

SumUnmasked(field, p) ==
    QSum([i \in 1..nsci |-> IF FrameMask(i, p) = 0 THEN frames[i][field][p] ELSE QZero],
         nsci)

(* C30: in a stack of two or more science frames, without background       *)
(* frames and without sigma clipping, at a pixel where n >= 1 frames are   *)
(* unmasked the image is the mean of those frames, and the variance and    *)
(* the read noise squared are the sums of theirs divided by n squared.     *)
C30_MeanOfUnmasked ==
    (Done("proc") /\ nbg = 0 /\ nsci >= 2 /\ ~op.flag) =>
        \A p \in Pix : \A n \in 1..nsci :
            Cardinality(Unmasked(p)) = n =>
                /\ sciimg[p] = QDiv(SumUnmasked("sciimg", p), QInt(n))
                /\ sciivar[p] = calc_ivar(QDiv(SumUnmasked("rawvar", p), QInt(n * n)))
                /\ rn2img[p] = QDiv(SumUnmasked("rn2", p), QInt(n * n))

C30_Witness ==
    /\ Done("proc") /\ nbg = 0 /\ nsci = MaxSci /\ ~op.flag
    /\ \E p \in Pix :
        /\ Cardinality(Unmasked(p)) = 2
        /\ \E i \in Unmasked(p), j \in Unmasked(p) : frames[i].sciimg[p] # frames[j].sciimg[p]
        /\ sciimg[p] = QDiv(SumUnmasked("sciimg", p), QInt(2))

=============================================================================
